---- MODULE Spec2Model ----
(***************************************************************************)
(* Model of the gunk trust layer: the channel registry and its owner       *)
(* facing handlers, the RTMP/FTL ingest authenticator, the OAuth login     *)
(* flow with its sealed cookies, and the liveness directory.               *)
(*                                                                         *)
(* Strings of the program are modelled by small integers: 0 is the empty   *)
(* string, 1..n are distinct non-empty strings ordered as the strings are. *)
(* A nullable SQL value, or a Go value that may be nil, is a sequence of   *)
(* length 0 (NULL / nil) or 1.                                             *)
(***************************************************************************)
EXTENDS Integers, Sequences, FiniteSets, TLC

VARIABLES channel_defs, users, thumbs, now, oauth, jar, issued, upstream, last

vars == <<channel_defs, users, thumbs, now, oauth, jar, issued, upstream, last>>
loginVars == <<oauth, jar, issued, upstream>>

(* ---- bounds ---------------------------------------------------------- *)
NumUsers == 2
NumNames == 2
NumKeys == 1
NumFtl == 1
MaxNonce == 1
MaxRows == 1
NumStates == 2
NumAvatars == 1
NumLive == 3
NumThumbs == 1
MaxTime == 4

UserIDs == 1..NumUsers
Names == 1..NumNames
Keys == 1..NumKeys
FtlIDs == 1..NumFtl
Nonces == 0..MaxNonce
StateTokens == 1..NumStates
AvatarHashes == 1..NumAvatars
LiveNames == 1..NumLive
ThumbBytes == 1..NumThumbs

Null == <<>>
Some(v) == <<v>>

(* ---- the store: channel_defs LEFT JOIN users ------------------------- *)

\* A row of channel_defs: the columns the statements of the program name.
ChannelRows ==
    [user_id : UserIDs, name : Names, key : Keys, announce : BOOLEAN,
     ftl_id : {Null} \cup {Some(f) : f \in FtlIDs}]


\* SQL three-valued AND over nullable booleans.
SqlAnd(a, b) ==
    IF a = Some(FALSE) \/ b = Some(FALSE) THEN Some(FALSE)
    ELSE IF a = Null \/ b = Null THEN Null
    ELSE Some(TRUE)

\* SQL COALESCE(a, d).
Coalesce(a, d) == IF a = Null THEN d ELSE a[1]

\* The users.announce values LEFT JOIN ... USING (user_id) pairs with a
\* channel row: one per matching users row, NULL when there is none.
JoinedOwnerAnnounce(r) ==
    LET m == {u \in users : u.user_id = r.user_id}
    IN IF m = {} THEN {Null} ELSE {Some(u.announce) : u \in m}

\* The zero value of channelAuth.
NoAuth == [UserID |-> 0, Name |-> 0, Announce |-> FALSE]

\* Column of a channel row as the text the WHERE clause compares.
ColumnOf(r, column) ==
    IF column = "name" THEN Some(r.name) ELSE r.ftl_id

\* findChannel without the join: the channel's own flag is returned.
findChannel_ChannelFlagOnly(column, value, dbOk) ==
    IF ~dbOk THEN {[auth |-> NoAuth, key |-> 0, err |-> "StoreFailure"]}
    ELSE LET hit == {r \in channel_defs : ColumnOf(r, column) = Some(value)}
         IN IF hit = {}
            THEN {[auth |-> NoAuth, key |-> 0, err |-> "ErrNoRows"]}
            ELSE {[auth |-> [UserID |-> r.user_id, Name |-> r.name, Announce |-> r.announce],
                   key |-> r.key, err |-> "nil"] : r \in hit}

\* findChannel: the results QueryRow(...).Scan can produce.  A store
\* failure returns before Scan assigns; no row leaves the outputs zero.
findChannel(column, value, dbOk) ==
    IF ~dbOk THEN {[auth |-> NoAuth, key |-> 0, err |-> "StoreFailure"]}
    ELSE LET hit == {r \in channel_defs : ColumnOf(r, column) = Some(value)}
         IN IF hit = {}
            THEN {[auth |-> NoAuth, key |-> 0, err |-> "ErrNoRows"]}
            ELSE UNION {{[auth |-> [UserID |-> r.user_id, Name |-> r.name,
                                    Announce |-> Coalesce(SqlAnd(Some(r.announce), a), FALSE)],
                          key |-> r.key, err |-> "nil"]
                         : a \in JoinedOwnerAnnounce(r)} : r \in hit}

(* ---- ingest authenticator -------------------------------------------- *)

\* hmac.Equal on two byte strings: true exactly when they are the same.
hmacEqual(a, b) == a = b

\* verifyRTMP(u): u carries the channel name (the base of its path) and
\* the "key" query value.  The results are (auth, err) pairs; auth is a
\* named result, so it keeps whatever findChannel assigned.  compared
\* tells whether the call reached hmac.Equal.
verifyRTMP(u, dbOk) ==
    {IF f.err # "nil"
        THEN [auth |-> f.auth, compared |-> FALSE,
              err |-> IF f.err = "ErrNoRows" THEN "ErrUserNotFound" ELSE f.err]
     ELSE IF ~hmacEqual(u.key, f.key)
        THEN [auth |-> f.auth, compared |-> TRUE, err |-> "ErrUserNotFound"]
     ELSE [auth |-> f.auth, compared |-> TRUE, err |-> "nil"]
     : f \in findChannel("name", u.name, dbOk)}

\* Width of a digest in bits, and the digests of that width.
DigestBits == 2
Digests == 0..(2^DigestBits - 1)

\* HMAC-SHA512 keyed by key over nonce: a function of both arguments that
\* separates the keys and nonces of the model, cut to the digest width.
HmacSha512(key, nonce) == (key * (MaxNonce + 1) + nonce) % 2^DigestBits

\* verifyFTL comparing the digests without their lowest bit.
verifyFTL_IgnoresLowBit(channelID, nonce, hmacProvided, dbOk) ==
    {IF f.err # "nil"
        THEN [auth |-> Null, compared |-> FALSE,
              err |-> IF f.err = "ErrNoRows" THEN "ErrUserNotFound" ELSE f.err]
     ELSE IF ~hmacEqual(HmacSha512(f.key, nonce) \div 2, hmacProvided \div 2)
        THEN [auth |-> Null, compared |-> TRUE, err |-> "ErrUserNotFound"]
     ELSE [auth |-> Some(f.auth), compared |-> TRUE, err |-> "nil"]
     : f \in findChannel("ftl_id", channelID, dbOk)}

\* verifyFTL(channelID, nonce, hmacProvided): the (value, err) pairs; the
\* value is nil (Null) on every failure path.
verifyFTL(channelID, nonce, hmacProvided, dbOk) ==
    {IF f.err # "nil"
        THEN [auth |-> Null, compared |-> FALSE,
              err |-> IF f.err = "ErrNoRows" THEN "ErrUserNotFound" ELSE f.err]
     ELSE IF ~hmacEqual(HmacSha512(f.key, nonce), hmacProvided)
        THEN [auth |-> Null, compared |-> TRUE, err |-> "ErrUserNotFound"]
     ELSE [auth |-> Some(f.auth), compared |-> TRUE, err |-> "nil"]
     : f \in findChannel("ftl_id", channelID, dbOk)}

(* ---- sealed cookies -------------------------------------------------- *)

\* A cookie as a request carries it: absent, present but failing to unseal
\* (tampered or expired), or the sealed form of a payload.
NoCookie == [kind |-> "none"]
BadCookie == [kind |-> "bad"]
seal(payload) == [kind |-> "sealed", payload |-> payload]

\* unseal: the payload of a sealed cookie, an error for anything else.
unseal(cookie) ==
    IF cookie.kind = "sealed" THEN [err |-> FALSE, value |-> cookie.payload]
    ELSE [err |-> TRUE]

\* The session identity sealed into the login cookie.  The avatar is a
\* string in parts: <<>> is "", <<h>> the provider's avatar hash h.
Identity(id, avatar) ==
    [ID |-> id, Username |-> id, Discriminator |-> id, Avatar |-> avatar]

\* Login cookies a request to the registry handlers can carry.
SessionCookies == {NoCookie, BadCookie} \cup {seal(Identity(u, <<>>)) : u \in UserIDs}

(* ---- responses ------------------------------------------------------- *)

\* A response: the status line and the payloads written to the body, in
\* order.  The first WriteHeader decides the status; a handler that writes
\* no header answers 200.
httpError(msg, code) == [status |-> code, writes |-> <<[text |-> msg]>>]
WriteJSON(resp, v) ==
    [status |-> resp.status, writes |-> Append(resp.writes, [json |-> v])]
Fresh == [status |-> 200, writes |-> <<>>]

(* ---- channel registry ------------------------------------------------ *)

\* The schema's constraints: name is the key of channel_defs, a non-null
\* ftl_id names one channel, user_id is the key of users.
UniqueNames(rows) == \A r, q \in rows : r.name = q.name => r = q
UniqueFtl(rows) == \A r, q \in rows : (r.ftl_id # Null /\ r.ftl_id = q.ftl_id) => r = q

\* channelDef as getChannelDefs and createChannel fill it.
channelDef(name, key, announce) ==
    [Name |-> name, Key |-> key, Announce |-> announce, RTMPDir |-> "", RTMPBase |-> <<>>]

\* setURL: the publish URL, which embeds the escaped name and the key.
setURL(d, base) ==
    [d EXCEPT !.RTMPDir = base, !.RTMPBase = <<d.Name, "?key=", d.Key>>]

\* getChannelDefs without its WHERE clause: the rows of every owner.
getChannelDefs_AllOwners(userID, dbOk) ==
    LET all == {channelDef(r.name, r.key, r.announce) : r \in channel_defs}
    IN IF dbOk THEN {[defs |-> Some(all), err |-> "nil"]}
       ELSE {[defs |-> Null, err |-> "StoreFailure"]}
            \cup {[defs |-> Some(part), err |-> "StoreFailure"] : part \in SUBSET all}

\* getChannelDefs: the rows of one owner.  A store failure returns the
\* error with defs nil (the query failed) or with the rows scanned so far.
getChannelDefs(userID, dbOk) ==
    LET mine == {channelDef(r.name, r.key, r.announce) :
                   r \in {q \in channel_defs : q.user_id = userID}}
    IN IF dbOk THEN {[defs |-> Some(mine), err |-> "nil"]}
       ELSE {[defs |-> Null, err |-> "StoreFailure"]}
            \cup {[defs |-> Some(part), err |-> "StoreFailure"] : part \in SUBSET mine}

\* INSERT INTO channel_defs: the unique index on name rejects a taken name
\* with SQLSTATE 23505 and leaves the table as it was.
InsertChannelDef(rows, row) ==
    IF \E r \in rows : r.name = row.name
    THEN [rows |-> rows, err |-> "23505"]
    ELSE [rows |-> rows \cup {row}, err |-> "nil"]

\* createChannel as an upsert: a taken name is given to the caller.
createChannel_Upsert(userID, name, key, ftl, dbOk) ==
    IF ~dbOk THEN [rows |-> channel_defs, def |-> Null, err |-> "StoreFailure"]
    ELSE [rows |-> {r \in channel_defs : r.name # name}
                     \cup {[user_id |-> userID, name |-> name, key |-> key,
                            announce |-> TRUE, ftl_id |-> ftl]},
          def |-> Some(channelDef(name, key, TRUE)), err |-> "nil"]

\* createChannel: key is the fresh random secret, ftl the id the store
\* assigns; announce starts true.
createChannel(userID, name, key, ftl, dbOk) ==
    IF ~dbOk THEN [rows |-> channel_defs, def |-> Null, err |-> "StoreFailure"]
    ELSE LET ins == InsertChannelDef(channel_defs,
                        [user_id |-> userID, name |-> name, key |-> key,
                         announce |-> TRUE, ftl_id |-> ftl])
         IN IF ins.err # "nil"
            THEN [rows |-> ins.rows, def |-> Null, err |-> ins.err]
            ELSE [rows |-> ins.rows, def |-> Some(channelDef(name, key, TRUE)), err |-> "nil"]

\* updateChannel without the owner in its WHERE clause.
updateChannel_AnyOwner(userID, name, announce, dbOk) ==
    IF ~dbOk THEN [rows |-> channel_defs, err |-> "StoreFailure"]
    ELSE LET hit == {r \in channel_defs : r.name = name}
         IN [rows |-> {IF r \in hit THEN [r EXCEPT !.announce = announce] ELSE r
                         : r \in channel_defs},
             err |-> IF hit = {} THEN "ErrNoRows" ELSE "nil"]

\* updateChannel: UPDATE ... WHERE user_id = $2 AND name = $3.
updateChannel(userID, name, announce, dbOk) ==
    IF ~dbOk THEN [rows |-> channel_defs, err |-> "StoreFailure"]
    ELSE LET hit == {r \in channel_defs : r.user_id = userID /\ r.name = name}
         IN [rows |-> {IF r \in hit THEN [r EXCEPT !.announce = announce] ELSE r
                         : r \in channel_defs},
             err |-> IF hit = {} THEN "ErrNoRows" ELSE "nil"]

\* deleteChannel: DELETE ... WHERE user_id = $1 AND name = $2.
deleteChannel(userID, name, dbOk) ==
    IF ~dbOk THEN [rows |-> channel_defs, err |-> "StoreFailure"]
    ELSE [rows |-> {r \in channel_defs : ~(r.user_id = userID /\ r.name = name)},
          err |-> "nil"]

\* checkAuth answering 401 and still returning the id it decoded.
checkAuth_ReturnsIDAfter401(cookie) ==
    LET u == unseal(cookie)
    IN IF ~u.err THEN [userID |-> u.value.ID, resp |-> Fresh]
       ELSE [userID |-> IF cookie.kind = "bad" THEN 1 ELSE 0,
             resp |-> httpError("not authorized", 401)]

\* checkAuth: the user id of the session, or "" (0) after answering 401.
checkAuth(cookie) ==
    LET u == unseal(cookie)
    IN IF ~u.err THEN [userID |-> u.value.ID, resp |-> Fresh]
       ELSE [userID |-> 0, resp |-> httpError("not authorized", 401)]

\* parseRequest: the request body is unreadable, not JSON, or a value.
parseRequest(body) ==
    IF body.kind = "unreadable" THEN [ok |-> FALSE, resp |-> httpError("", 500)]
    ELSE IF body.kind = "invalid" THEN [ok |-> FALSE, resp |-> httpError("invalid JSON in request", 400)]
    ELSE [ok |-> TRUE, resp |-> Fresh]

Idle == [op |-> "none"]
RtmpBase == "rtmpBase"
others == <<users, thumbs, now, loginVars>>

\* Ids the store can give a new row: none, or one no row holds.
FreeFtl == {Null} \cup {Some(f) : f \in {g \in FtlIDs : \A r \in channel_defs : r.ftl_id # Some(g)}}

(* ---- owner-facing handlers ------------------------------------------- *)

viewDefs ==
    /\ last = Idle
    /\ \E cookie \in SessionCookies, dbOk \in BOOLEAN :
         LET a == checkAuth(cookie)
         IN IF a.userID = 0
            THEN last' = [op |-> "viewDefs", cookie |-> cookie, dbOk |-> dbOk,
                          before |-> channel_defs, owner |-> Null, err |-> "none",
                          resp |-> a.resp]
            ELSE \E g \in getChannelDefs(a.userID, dbOk) :
                   LET r1 == IF g.err # "nil" THEN httpError("", 500) ELSE a.resp
                       out == IF g.defs = Null THEN Null
                              ELSE Some({setURL(d, RtmpBase) : d \in g.defs[1]})
                   IN last' = [op |-> "viewDefs", cookie |-> cookie, dbOk |-> dbOk,
                               before |-> channel_defs, owner |-> Some(a.userID),
                               err |-> g.err, resp |-> WriteJSON(r1, out)]
    /\ UNCHANGED <<channel_defs, others>>

NameBodies == {[kind |-> "unreadable"], [kind |-> "invalid"]}
                 \cup {[kind |-> "json", Name |-> n] : n \in Names}

viewDefsCreate ==
    /\ last = Idle
    /\ \E cookie \in SessionCookies, body \in NameBodies, key \in Keys,
          ftl \in FreeFtl, randOk \in BOOLEAN, dbOk \in BOOLEAN :
         LET a == checkAuth(cookie)
             p == parseRequest(body)
             req == [op |-> "viewDefsCreate", cookie |-> cookie, body |-> body,
                     randOk |-> randOk, dbOk |-> dbOk, before |-> channel_defs]
         IN IF a.userID = 0
            THEN /\ last' = req @@ [owner |-> Null, err |-> "none", resp |-> a.resp]
                 /\ UNCHANGED channel_defs
            ELSE IF ~p.ok
            THEN /\ last' = req @@ [owner |-> Null, err |-> "none", resp |-> p.resp]
                 /\ UNCHANGED channel_defs
            ELSE IF ~randOk
            THEN /\ last' = req @@ [owner |-> Null, err |-> "rand",
                                    resp |-> httpError("", 500)]
                 /\ UNCHANGED channel_defs
            ELSE LET c == createChannel(a.userID, body.Name, key, ftl, dbOk)
                 IN /\ Cardinality(c.rows) <= MaxRows
                    /\ channel_defs' = c.rows
                    /\ last' = req @@
                         [owner |-> Some(a.userID), err |-> c.err,
                          resp |-> IF c.err = "23505"
                                   THEN httpError("channel name already in use", 409)
                                   ELSE IF c.err # "nil" THEN httpError("", 500)
                                   ELSE WriteJSON(a.resp, setURL(c.def[1], RtmpBase))]
    /\ UNCHANGED others

AnnounceBodies == {[kind |-> "unreadable"], [kind |-> "invalid"]}
                     \cup {[kind |-> "json", Announce |-> b] : b \in BOOLEAN}

viewDefsUpdate ==
    /\ last = Idle
    /\ \E cookie \in SessionCookies, body \in AnnounceBodies, name \in Names, dbOk \in BOOLEAN :
         LET a == checkAuth(cookie)
             p == parseRequest(body)
             req == [op |-> "viewDefsUpdate", cookie |-> cookie, body |-> body,
                     name |-> name, dbOk |-> dbOk, before |-> channel_defs]
         IN IF a.userID = 0
            THEN /\ last' = req @@ [owner |-> Null, err |-> "none", resp |-> a.resp]
                 /\ UNCHANGED channel_defs
            ELSE IF ~p.ok
            THEN /\ last' = req @@ [owner |-> Null, err |-> "none", resp |-> p.resp]
                 /\ UNCHANGED channel_defs
            ELSE LET c == updateChannel(a.userID, name, body.Announce, dbOk)
                 IN /\ channel_defs' = c.rows
                    /\ last' = req @@
                         [owner |-> Some(a.userID), err |-> c.err,
                          resp |-> IF c.err # "nil" THEN httpError("", 500)
                                   ELSE WriteJSON(a.resp, "{}")]
    /\ UNCHANGED others

viewDefsDelete ==
    /\ last = Idle
    /\ \E cookie \in SessionCookies, name \in Names, dbOk \in BOOLEAN :
         LET a == checkAuth(cookie)
             req == [op |-> "viewDefsDelete", cookie |-> cookie, name |-> name, dbOk |-> dbOk,
                     before |-> channel_defs]
         IN IF a.userID = 0
            THEN /\ last' = req @@ [owner |-> Null, err |-> "none", resp |-> a.resp]
                 /\ UNCHANGED channel_defs
            ELSE LET c == deleteChannel(a.userID, name, dbOk)
                 IN /\ channel_defs' = c.rows
                    /\ last' = req @@
                         [owner |-> Some(a.userID), err |-> c.err,
                          resp |-> IF c.err # "nil" THEN a.resp
                                   ELSE WriteJSON(a.resp, "{}")]
    /\ UNCHANGED others

\* The handler has returned and its response has left the server: the next
\* request is served.
Return ==
    /\ last # Idle
    /\ last' = Idle
    /\ UNCHANGED <<channel_defs, others>>

(* ---- OAuth login flow ------------------------------------------------ *)

\* What a response does to one cookie of the user agent.
Keep == [act |-> "keep"]
Clear == [act |-> "clear"]
Set(cookie) == [act |-> "set", cookie |-> cookie]

\* setCookie(rw, name, value, ttl): a negative ttl clears the cookie; else
\* the value is sealed, and a sealing failure sets nothing and is returned.
setCookie(value, ttl, sealOk) ==
    IF ttl < 0 THEN [cookie |-> Clear, err |-> FALSE]
    ELSE IF ~sealOk THEN [cookie |-> Keep, err |-> TRUE]
    ELSE [cookie |-> Set(seal(value)), err |-> FALSE]

stateCookieExpires == 15 * 60
loginCookieExpires == 30 * 24 * 60 * 60

\* The cookie a user agent holds after a response.
Applied(cookie, directive) ==
    IF directive.act = "set" THEN directive.cookie
    ELSE IF directive.act = "clear" THEN NoCookie
    ELSE cookie

\* A login-flow response: status, body, redirect target, cookie directives.
Reply(status, writes, location, stateC, loginC) ==
    [status |-> status, writes |-> writes, location |-> location,
     stateCookie |-> stateC, loginCookie |-> loginC]

\* The proxied avatar path "/avatars/<id>/<hash>.png", as its two parts.
AvatarPath(id, avatar) == <<id>> \o avatar

Anonymous == Identity(0, <<>>)

\* viewUser: the identity written to the client.
viewUserInfo(cookie) ==
    LET u == unseal(cookie)
        info == IF u.err THEN Anonymous ELSE u.value
    IN IF info.Avatar # <<>>
       THEN [info EXCEPT !.Avatar = AvatarPath(info.ID, info.Avatar)]
       ELSE info

\* tokenExchange asking the provider before it has compared the states.
tokenExchange_ExchangesFirst(code, state, cookie, exchangeOk) ==
    IF code = 0
    THEN [err |-> "missing code", cleared |-> FALSE, exchanged |-> FALSE, steps |-> <<>>]
    ELSE LET u == unseal(cookie)
         IN IF u.err
            THEN [err |-> "unseal", cleared |-> TRUE, exchanged |-> FALSE,
                  steps |-> <<"unseal", "clearState">>]
            ELSE IF ~exchangeOk
            THEN [err |-> "exchange", cleared |-> TRUE, exchanged |-> TRUE,
                  steps |-> <<"unseal", "clearState", "exchange">>]
            ELSE IF ~hmacEqual(u.value, state)
            THEN [err |-> "state mismatch", cleared |-> TRUE, exchanged |-> TRUE,
                  steps |-> <<"unseal", "clearState", "exchange", "compare">>]
            ELSE [err |-> "nil", cleared |-> TRUE, exchanged |-> TRUE,
                  steps |-> <<"unseal", "clearState", "exchange", "compare">>]

\* tokenExchange clearing the state cookie only once the code has been
\* exchanged.
tokenExchange_ClearsAfterExchange(code, state, cookie, exchangeOk) ==
    IF code = 0
    THEN [err |-> "missing code", cleared |-> FALSE, exchanged |-> FALSE, steps |-> <<>>]
    ELSE LET u == unseal(cookie)
         IN IF u.err
            THEN [err |-> "unseal", cleared |-> FALSE, exchanged |-> FALSE,
                  steps |-> <<"unseal">>]
            ELSE IF ~hmacEqual(u.value, state)
            THEN [err |-> "state mismatch", cleared |-> FALSE, exchanged |-> FALSE,
                  steps |-> <<"unseal", "compare">>]
            ELSE [err |-> IF exchangeOk THEN "nil" ELSE "exchange",
                  cleared |-> TRUE, exchanged |-> TRUE,
                  steps |-> <<"unseal", "compare", "exchange", "clearState">>]

\* tokenExchange going on to the exchange whatever the comparison says.
tokenExchange_SkipsStateCheck(code, state, cookie, exchangeOk) ==
    IF code = 0
    THEN [err |-> "missing code", cleared |-> FALSE, exchanged |-> FALSE, steps |-> <<>>]
    ELSE LET u == unseal(cookie)
         IN IF u.err
            THEN [err |-> "unseal", cleared |-> TRUE, exchanged |-> FALSE,
                  steps |-> <<"unseal", "clearState">>]
            ELSE [err |-> IF exchangeOk THEN "nil" ELSE "exchange",
                  cleared |-> TRUE, exchanged |-> TRUE,
                  steps |-> <<"unseal", "clearState", "compare", "exchange">>]

\* tokenExchange: the error or token, whether the state cookie was cleared
\* and whether the provider was asked to exchange the code, and the steps
\* taken in the order the code takes them.
tokenExchange(code, state, cookie, exchangeOk) ==
    IF code = 0
    THEN [err |-> "missing code", cleared |-> FALSE, exchanged |-> FALSE, steps |-> <<>>]
    ELSE LET u == unseal(cookie)
         IN IF u.err
            THEN [err |-> "unseal", cleared |-> TRUE, exchanged |-> FALSE,
                  steps |-> <<"unseal", "clearState">>]
            ELSE IF ~hmacEqual(u.value, state)
            THEN [err |-> "state mismatch", cleared |-> TRUE, exchanged |-> FALSE,
                  steps |-> <<"unseal", "clearState", "compare">>]
            ELSE [err |-> IF exchangeOk THEN "nil" ELSE "exchange",
                  cleared |-> TRUE, exchanged |-> TRUE,
                  steps |-> <<"unseal", "clearState", "compare", "exchange">>]

\* The user agent's cookies after the response, when the request was its
\* own.  loggedOut records whether its last login-cookie change was a
\* logout, and whether it was signed in before it.
JarAfter(own, resp, out) ==
    IF own
    THEN [state |-> Applied(jar.state, resp.stateCookie),
          login |-> Applied(jar.login, resp.loginCookie),
          loggedOut |-> out]
    ELSE jar

\* State cookies a request can carry: the user agent's own, or none, a
\* damaged one, or a copy of one issued before (a retry, a replay).
Carried(own) ==
    IF own THEN {jar.state}
    ELSE {NoCookie, BadCookie} \cup {seal(t) : t \in issued}

SetOauth ==
    /\ last = Idle
    /\ \E clientID \in 0..1 :
         /\ oauth' = [ClientID |-> clientID]
         /\ last' = [op |-> "SetOauth", clientID |-> clientID]
    /\ UNCHANGED <<channel_defs, users, thumbs, now, jar, issued, upstream>>

viewUser ==
    /\ last = Idle
    /\ \E own \in BOOLEAN :
        \E cookie \in (IF own THEN {jar.login} ELSE {NoCookie, BadCookie}) :
          last' = [op |-> "viewUser", own |-> own, cookie |-> cookie,
                   loggedOut |-> IF own THEN jar.loggedOut ELSE "no",
                   resp |-> Reply(200, <<[json |-> viewUserInfo(cookie)]>>, <<>>, Keep, Keep)]
    /\ UNCHANGED <<channel_defs, users, thumbs, now, loginVars>>

\* viewOauthLogin without the check of the client id.
viewOauthLogin_NoConfigCheck ==
    /\ last = Idle
    /\ \E own \in BOOLEAN, state \in StateTokens, randOk \in BOOLEAN, sealOk \in BOOLEAN :
         LET c == setCookie(state, stateCookieExpires, sealOk)
             resp == IF ~randOk
                     THEN Reply(0, <<>>, <<>>, Keep, Keep)
                     ELSE Reply(302, <<>>, <<"authorize", state>>, c.cookie, Keep)
         IN /\ last' = [op |-> "viewOauthLogin", own |-> own, resp |-> resp]
            /\ jar' = JarAfter(own, resp, jar.loggedOut)
            /\ issued' = IF resp.stateCookie.act = "set" THEN issued \cup {state} ELSE issued
    /\ UNCHANGED <<channel_defs, users, thumbs, now, oauth, upstream>>

viewOauthLogin ==
    /\ last = Idle
    /\ \E own \in BOOLEAN, state \in StateTokens, randOk \in BOOLEAN, sealOk \in BOOLEAN :
         LET c == setCookie(state, stateCookieExpires, sealOk)
             resp == IF oauth.ClientID = 0
                     THEN Reply(400, <<[text |-> "oauth not configured"]>>, <<>>, Keep, Keep)
                     ELSE IF ~randOk
                     THEN Reply(0, <<>>, <<>>, Keep, Keep)
                     ELSE Reply(302, <<>>, <<"authorize", state>>, c.cookie, Keep)
         IN /\ last' = [op |-> "viewOauthLogin", own |-> own, resp |-> resp]
            /\ jar' = JarAfter(own, resp, jar.loggedOut)
            /\ issued' = IF resp.stateCookie.act = "set" THEN issued \cup {state} ELSE issued
    /\ UNCHANGED <<channel_defs, users, thumbs, now, oauth, upstream>>

viewOauthCB ==
    /\ last = Idle
    /\ \E own \in BOOLEAN, code \in 0..1, state \in 0..NumStates,
          exchangeOk \in BOOLEAN, sealOk \in BOOLEAN,
          profile \in {Null} \cup {Some(Identity(u, a)) : u \in UserIDs,
                                     a \in {<<>>} \cup {<<h>> : h \in AvatarHashes}} :
        \E cookie \in Carried(own) :
         LET x == tokenExchange(code, state, cookie, exchangeOk)
             clearing == IF x.cleared THEN Clear ELSE Keep
             c == setCookie(profile[1], loginCookieExpires, sealOk)
             fetched == oauth.ClientID # 0 /\ x.err = "nil"
             resp == IF oauth.ClientID = 0
                     THEN Reply(400, <<[text |-> "oauth not configured"]>>, <<>>, Keep, Keep)
                     ELSE IF x.err # "nil"
                     THEN Reply(400, <<[text |-> "oauth failure"]>>, <<>>, clearing, Keep)
                     ELSE IF profile = Null
                     THEN Reply(400, <<[text |-> "error getting user info from discord"]>>,
                                <<>>, clearing, Keep)
                     ELSE IF c.err
                     THEN Reply(500, <<[text |-> "error setting login cookie"]>>,
                                <<>>, clearing, Keep)
                     ELSE Reply(302, <<>>, <<"/">>, clearing, c.cookie)
             asked == oauth.ClientID # 0 /\ x.exchanged
             steps == IF oauth.ClientID = 0 THEN <<>>
                      ELSE IF x.err # "nil" THEN x.steps
                      ELSE IF profile = Null THEN Append(x.steps, "lookupUser")
                      ELSE IF c.err THEN x.steps \o <<"lookupUser", "lookupUser ok">>
                      ELSE x.steps \o <<"lookupUser", "lookupUser ok", "setLogin", "redirect">>
         IN /\ last' = [op |-> "viewOauthCB", own |-> own, code |-> code, state |-> state,
                        cookie |-> cookie, err |-> IF oauth.ClientID = 0 THEN "config" ELSE x.err,
                        passedBefore |-> state \in upstream,
                        exchanged |-> asked, fetched |-> fetched, steps |-> steps,
                        resp |-> resp]
            /\ jar' = JarAfter(own, resp, IF resp.loginCookie.act = "set" THEN "no" ELSE jar.loggedOut)
            /\ upstream' = IF asked THEN upstream \cup {state} ELSE upstream
    /\ UNCHANGED <<channel_defs, users, thumbs, now, oauth, issued>>

\* viewOauthLogout answering without clearing the login cookie.
viewOauthLogout_NoClear ==
    /\ last = Idle
    /\ \E own \in BOOLEAN :
         LET resp == Reply(200, <<[json |-> "{}"]>>, <<>>, Keep, Keep)
         IN /\ last' = [op |-> "viewOauthLogout", own |-> own, resp |-> resp]
            /\ jar' = JarAfter(own, resp, IF jar.login.kind = "sealed" THEN "signed in"
                                           ELSE IF jar.loggedOut = "no" THEN "anonymous"
                                           ELSE jar.loggedOut)
    /\ UNCHANGED <<channel_defs, users, thumbs, now, oauth, issued, upstream>>

viewOauthLogout ==
    /\ last = Idle
    /\ \E own \in BOOLEAN :
         LET c == setCookie(Null, -1, TRUE)
             resp == Reply(200, <<[json |-> "{}"]>>, <<>>, Keep, c.cookie)
         IN /\ last' = [op |-> "viewOauthLogout", own |-> own, resp |-> resp]
            /\ jar' = JarAfter(own, resp, IF jar.login.kind = "sealed" THEN "signed in"
                                           ELSE IF jar.loggedOut = "no" THEN "anonymous"
                                           ELSE jar.loggedOut)
    /\ UNCHANGED <<channel_defs, users, thumbs, now, oauth, issued, upstream>>

\* No login has been started.
LoginAtRest ==
    /\ oauth = [ClientID |-> 0]
    /\ jar = [state |-> NoCookie, login |-> NoCookie, loggedOut |-> "no"]
    /\ issued = {}
    /\ upstream = {}

(* ---- ingest authentication as steps ---------------------------------- *)

AuthenticateRTMP ==
    /\ last = Idle
    /\ \E name \in 0..NumNames, key \in 0..NumKeys, dbOk \in BOOLEAN :
        \E r \in verifyRTMP([name |-> name, key |-> key], dbOk) :
          last' = [op |-> "verifyRTMP", name |-> name, key |-> key, dbOk |-> dbOk,
                   auth |-> r.auth, compared |-> r.compared, err |-> r.err]
    /\ UNCHANGED <<channel_defs, others>>

AuthenticateFTL ==
    /\ last = Idle
    /\ \E id \in 0..(NumFtl + 1), nonce \in Nonces, digest \in Digests, dbOk \in BOOLEAN :
        \E r \in verifyFTL(id, nonce, digest, dbOk) :
          last' = [op |-> "verifyFTL", id |-> id, nonce |-> nonce, digest |-> digest,
                   dbOk |-> dbOk, auth |-> r.auth, compared |-> r.compared, err |-> r.err]
    /\ UNCHANGED <<channel_defs, others>>

\* The registries of at most k rows the handlers can build: names and
\* non-null ftl ids are unique.
RECURSIVE RegistriesUpTo(_)
RegistriesUpTo(k) ==
    IF k = 0 THEN {{}}
    ELSE LET smaller == RegistriesUpTo(k - 1)
         IN smaller \cup
            {rs \in UNION {{q \cup {r} : r \in ChannelRows} : q \in smaller} :
               UniqueNames(rs) /\ UniqueFtl(rs)}

\* Preference tables over a set of users: each has a row with a flag, or
\* none.  Only the rows of channel owners are ever joined.
PreferenceTables(owners) ==
    {{[user_id |-> u, announce |-> f[u][1]] : u \in {v \in owners : f[v] # Null}}
       : f \in [owners -> {Null, Some(TRUE), Some(FALSE)}]}

InitStore ==
    /\ channel_defs = {}
    /\ thumbs = {}
    /\ now = 0
    /\ LoginAtRest
    /\ last = Idle

\* The registry and its handlers.
InitRegistry == InitStore /\ users = {}
NextRegistry == viewDefs \/ viewDefsCreate \/ viewDefsUpdate \/ viewDefsDelete \/ Return
SpecRegistry == InitRegistry /\ [][NextRegistry]_vars

\* The registry once every name has been created: one channel per name,
\* each with some owner.
InitAnnounce ==
    /\ \E f \in [Names -> UserIDs] :
         channel_defs = {[user_id |-> f[n], name |-> n, key |-> 1, announce |-> TRUE,
                          ftl_id |-> Null] : n \in Names}
    /\ users = {}
    /\ thumbs = {}
    /\ now = 0
    /\ LoginAtRest
    /\ last = Idle
NextAnnounce == viewDefs \/ viewDefsUpdate \/ viewDefsDelete \/ Return
SpecAnnounce == InitAnnounce /\ [][NextAnnounce]_vars

\* The ingest authenticator, over every registry of at most MaxRows rows
\* and every preference of their owners.
InitAuth ==
    /\ channel_defs \in RegistriesUpTo(MaxRows)
    /\ users \in PreferenceTables({r.user_id : r \in channel_defs})
    /\ thumbs = {}
    /\ now = 0
    /\ LoginAtRest
    /\ last = Idle
NextAuth == AuthenticateRTMP \/ AuthenticateFTL \/ Return
SpecAuth == InitAuth /\ [][NextAuth]_vars

(* ---- liveness directory ---------------------------------------------- *)

\* Time is counted in ticks of half a minute.
Minute == 2
TickMillis == 30 * 1000

Greatest(a, b) == IF a >= b THEN a ELSE b

\* The age of a row, without the floor.
SortAge_NoFloor(t) == now - t.updated

\* The ORDER BY key of a thumbs row: its age floored at one minute, then
\* its name (output column 1).
SortAge(t) == Greatest(now - t.updated, Minute)
Precedes(a, b) ==
    \/ SortAge(a) < SortAge(b)
    \/ SortAge(a) = SortAge(b) /\ a.name < b.name

\* The rows of a set in ORDER BY order.
RECURSIVE OrderBy(_)
OrderBy(rows) ==
    IF rows = {} THEN <<>>
    ELSE LET first == CHOOSE t \in rows : \A q \in rows \ {t} : Precedes(t, q)
         IN <<first>> \o OrderBy(rows \ {first})

\* channelInfo as listChannels fills it: the name and the update time in
\* milliseconds; the other fields keep their zero values.
channelInfo(t) ==
    [Name |-> t.name, Live |-> FALSE, Last |-> t.updated * TickMillis,
     Thumb |-> "", LiveURL |-> ""]

\* listChannels restricted to the names that are still channels.
listChannels_JoinsDefs(dbOk) ==
    IF ~dbOk THEN [ret |-> Null, err |-> "StoreFailure"]
    ELSE LET rows == OrderBy({t \in thumbs : \E r \in channel_defs : r.name = t.name})
         IN [ret |-> Some([i \in 1..Len(rows) |-> channelInfo(rows[i])]), err |-> "nil"]

\* listChannels: every thumbs row, ordered; nil and the error when the
\* store fails.
listChannels(dbOk) ==
    IF ~dbOk THEN [ret |-> Null, err |-> "StoreFailure"]
    ELSE LET rows == OrderBy(thumbs)
         IN [ret |-> Some([i \in 1..Len(rows) |-> channelInfo(rows[i])]), err |-> "nil"]

\* The value a new thumbs row takes for updated, which the INSERT leaves
\* to the column default: the time of the insert.
ThumbsDefaultUpdated == now

\* putThumb whose ON CONFLICT clause sets the thumb alone.
putThumb_KeepsUpdated(channelName, d, dbOk) ==
    IF ~dbOk THEN [rows |-> thumbs, err |-> "StoreFailure"]
    ELSE LET old == {t \in thumbs : t.name = channelName}
         IN [rows |-> (thumbs \ old)
                        \cup (IF old = {}
                              THEN {[name |-> channelName, thumb |-> d,
                                     updated |-> ThumbsDefaultUpdated]}
                              ELSE {[t EXCEPT !.thumb = d] : t \in old}),
             err |-> "nil"]

\* putThumb: INSERT ... ON CONFLICT (name) DO UPDATE SET thumb, updated =
\* now(); a new row takes the column default for updated.
putThumb(channelName, d, dbOk) ==
    IF ~dbOk THEN [rows |-> thumbs, err |-> "StoreFailure"]
    ELSE LET old == {t \in thumbs : t.name = channelName}
         IN [rows |-> (thumbs \ old)
                        \cup (IF old = {}
                              THEN {[name |-> channelName, thumb |-> d,
                                     updated |-> ThumbsDefaultUpdated]}
                              ELSE {[t EXCEPT !.thumb = d, !.updated = now] : t \in old}),
             err |-> "nil"]

\* getThumb: the thumb of the row with that name; no row leaves d nil and
\* returns ErrNoRows.
getThumb(channelName, dbOk) ==
    IF ~dbOk THEN {[d |-> Null, err |-> "StoreFailure"]}
    ELSE LET hit == {t \in thumbs : t.name = channelName}
         IN IF hit = {} THEN {[d |-> Null, err |-> "ErrNoRows"]}
            ELSE {[d |-> Some(t.thumb), err |-> "nil"] : t \in hit}

ListLiveChannels ==
    /\ last = Idle
    /\ \E dbOk \in BOOLEAN :
         LET l == listChannels(dbOk)
         IN last' = [op |-> "listChannels", dbOk |-> dbOk, at |-> now,
                     ret |-> l.ret, err |-> l.err]
    /\ UNCHANGED <<channel_defs, users, thumbs, now, loginVars>>

PutThumbnail ==
    /\ last = Idle
    /\ \E name \in LiveNames, d \in ThumbBytes, dbOk \in BOOLEAN :
         LET p == putThumb(name, d, dbOk)
         IN /\ thumbs' = p.rows
            /\ last' = [op |-> "putThumb", name |-> name, thumb |-> d, dbOk |-> dbOk,
                        at |-> now, before |-> thumbs, err |-> p.err]
    /\ UNCHANGED <<channel_defs, users, now, loginVars>>

GetThumbnail ==
    /\ last = Idle
    /\ \E name \in LiveNames, dbOk \in BOOLEAN :
        \E g \in getThumb(name, dbOk) :
          last' = [op |-> "getThumb", name |-> name, dbOk |-> dbOk, d |-> g.d, err |-> g.err]
    /\ UNCHANGED <<channel_defs, users, thumbs, now, loginVars>>

\* The store's clock advances between two statements.
Tick ==
    /\ last = Idle
    /\ now < MaxTime
    /\ now' = now + 1
    /\ UNCHANGED <<channel_defs, users, thumbs, loginVars, last>>

InitDirectory == InitStore /\ users = {}
NextDirectory == ListLiveChannels \/ PutThumbnail \/ GetThumbnail \/ Tick \/ Return
SpecDirectory == InitDirectory /\ [][NextDirectory]_vars

\* The directory next to a registry that holds a channel for every name,
\* whose owners delete them.
NextLiveness == viewDefsDelete \/ PutThumbnail \/ ListLiveChannels \/ Return
SpecLiveness == InitAnnounce /\ [][NextLiveness]_vars

(* ---- properties of the ingest authenticator -------------------------- *)

\* The effective announce flag of a channel row: its own flag and its
\* owner's, false when the owner has no preference row.
EffectiveAnnounce(r) ==
    r.announce /\ \E u \in users : u.user_id = r.user_id /\ u.announce

AuthorizationOf(r) ==
    [UserID |-> r.user_id, Name |-> r.name, Announce |-> EffectiveAnnounce(r)]

\* A digest with bit i inverted.
FlipBit(d, i) == IF (d \div 2^i) % 2 = 1 THEN d - 2^i ELSE d + 2^i

RTMPAnswered == last.op = "verifyRTMP" /\ last.dbOk
FTLAnswered == last.op = "verifyFTL" /\ last.dbOk

\* C3: for a channel named n with secret s, AuthenticateRTMP(n, k) returns
\* the channel's authorization without error exactly when k = s, and for
\* every other k returns ErrUserNotFound and no authorization.
C3_RTMPSucceedsExactlyOnSecret ==
    RTMPAnswered =>
      \A r \in channel_defs : r.name = last.name =>
        IF last.key = r.key
        THEN last.err = "nil" /\ last.auth = AuthorizationOf(r)
        ELSE last.err = "ErrUserNotFound" /\ last.auth = NoAuth

\* C4: for a channel with secondary id f and secret s, AuthenticateFTL(f,
\* nonce, d) returns the authorization exactly when d is
\* HMAC-SHA512(s, nonce); every other digest gets ErrUserNotFound and nil.
C4_FTLSucceedsExactlyOnDigest ==
    FTLAnswered =>
      \A r \in channel_defs : r.ftl_id = Some(last.id) =>
        IF last.digest = HmacSha512(r.key, last.nonce)
        THEN last.err = "nil" /\ last.auth = Some(AuthorizationOf(r))
        ELSE last.err = "ErrUserNotFound" /\ last.auth = Null

\* A digest one bit away from the right one has been refused.
C4_Witness ==
    /\ FTLAnswered
    /\ \E r \in channel_defs, i \in 0..(DigestBits - 1) :
         /\ r.ftl_id = Some(last.id)
         /\ last.digest = FlipBit(HmacSha512(r.key, last.nonce), i)
    /\ last.err = "ErrUserNotFound"

\* C5: a failed authentication of an existing channel (wrong key, wrong
\* digest) returns exactly what the same call returns for a channel that
\* does not exist: the same error and no authorization.
C5_MissAndMismatchAlike ==
    /\ (RTMPAnswered /\ last.err # "nil") =>
         [auth |-> last.auth, err |-> last.err]
           \in {[auth |-> r.auth, err |-> r.err] :
                  r \in verifyRTMP([name |-> 0, key |-> last.key], TRUE)}
    /\ (FTLAnswered /\ last.err # "nil") =>
         [auth |-> last.auth, err |-> last.err]
           \in {[auth |-> r.auth, err |-> r.err] :
                  r \in verifyFTL(0, last.nonce, last.digest, TRUE)}

\* C6: the announce flag of every authorization a successful
\* authentication returns is channel.announce AND owner.announce, false
\* when the owner has no preference row.
C6_EffectiveAnnounce ==
    /\ (RTMPAnswered /\ last.err = "nil") =>
         \A r \in channel_defs : r.name = last.name =>
           last.auth.Announce = EffectiveAnnounce(r)
    /\ (FTLAnswered /\ last.err = "nil") =>
         \A r \in channel_defs : r.ftl_id = Some(last.id) =>
           last.auth[1].Announce = EffectiveAnnounce(r)

\* An authentication succeeded for an announced channel whose owner has no
\* preference row.
C6_Witness ==
    /\ (RTMPAnswered \/ FTLAnswered)
    /\ last.err = "nil"
    /\ \E r \in channel_defs :
         /\ (last.op = "verifyRTMP" => r.name = last.name)
         /\ (last.op = "verifyFTL" => r.ftl_id = Some(last.id))
         /\ r.announce
         /\ \A u \in users : u.user_id # r.user_id

\* C18: every AuthenticateRTMP and AuthenticateFTL call executes the
\* comparison step before it returns, also when the lookup finds no
\* channel.
C18_AlwaysCompares ==
    last.op \in {"verifyRTMP", "verifyFTL"} => last.compared

(* ---- properties of the liveness directory ---------------------------- *)

Listed == last.op = "listChannels" /\ last.dbOk
Listing == last.ret[1]
RowNamed(n) == CHOOSE t \in thumbs : t.name = n
\* Age of a record when the listing was made.
Age(n) == last.at - RowNamed(n).updated

\* C7: ListLiveChannels returns every liveness record exactly once, ordered
\* by max(age, 1 minute) ascending and then by name ascending: the channels
\* updated within the last minute first, alphabetically, then the older
\* ones by increasing age.
C7_ListingOrder ==
    Listed =>
      /\ Len(Listing) = Cardinality(thumbs)
      /\ \A t \in thumbs : \E i \in 1..Len(Listing) : Listing[i].Name = t.name
      /\ \A i, j \in 1..Len(Listing) :
           i < j =>
             LET a == Age(Listing[i].Name)
                 b == Age(Listing[j].Name)
             IN /\ Listing[i].Name # Listing[j].Name
                /\ (a <= Minute /\ b <= Minute) => Listing[i].Name < Listing[j].Name
                /\ (a <= Minute /\ b > Minute) \/ (a > Minute => a <= b)
                /\ (a > Minute /\ a = b) => Listing[i].Name < Listing[j].Name

\* Three records are listed: one younger than a minute whose name sorts
\* last, and two older ones of different ages.
C7_Witness ==
    /\ Listed
    /\ Len(Listing) = 3
    /\ Age(Listing[1].Name) < Minute
    /\ Age(Listing[2].Name) > Minute
    /\ Age(Listing[3].Name) > Age(Listing[2].Name)
    /\ Listing[1].Name > Listing[2].Name

\* C16: a liveness record is never deleted: no step, a DeleteChannel of
\* the channel of that name included, removes the record of a name, and
\* every listing that succeeds names every record.
C16_RecordsNeverDeleted ==
    /\ [][\A t \in thumbs : \E q \in thumbs' : q.name = t.name]_vars
    /\ [](Listed => \A t \in thumbs : \E i \in 1..Len(Listing) : Listing[i].Name = t.name)

\* A listing names a record whose channel has been deleted.
C16_Witness ==
    /\ Listed
    /\ \E i \in 1..Len(Listing) :
         /\ Listing[i].Name \in Names
         /\ \A r \in channel_defs : r.name # Listing[i].Name

PutServed == last.op = "putThumb" /\ last.dbOk

InitLogin ==
    /\ channel_defs = {}
    /\ users = {}
    /\ thumbs = {}
    /\ now = 0
    /\ LoginAtRest
    /\ last = Idle
NextLogin == SetOauth \/ viewUser \/ viewOauthLogin \/ viewOauthCB \/ viewOauthLogout \/ Return
SpecLogin == InitLogin /\ [][NextLogin]_vars

(* ---- properties of the login flow ------------------------------------ *)

CallbackServed == last.op = "viewOauthCB"

\* The state cookie of the callback is absent, does not unseal, or unseals
\* to something else than the state the request carries.
StateUnverified ==
    \/ unseal(last.cookie).err
    \/ unseal(last.cookie).value # last.state

\* C1: a state token verifies at most once: once a callback carrying a
\* state and its sealed cookie has passed verification, a later or
\* duplicate callback with the same state and cookie fails the state check
\* and no token exchange is asked for.
C1_StateVerifiesOnce ==
    (CallbackServed /\ last.passedBefore /\ last.code # 0 /\ oauth.ClientID # 0
       /\ last.cookie = seal(last.state)) =>
      /\ last.err \in {"unseal", "state mismatch"}
      /\ ~last.exchanged

\* C2: a callback whose state cookie is absent or does not unseal, or
\* whose state differs from the unsealed value, fails, and the provider is
\* not called in that request.
C2_NoExchangeOnStateMismatch ==
    (CallbackServed /\ StateUnverified) =>
      /\ last.resp.status = 400
      /\ last.resp.loginCookie = Keep
      /\ ~last.exchanged
      /\ ~last.fetched

\* A configured callback with a code whose sealed cookie holds another
\* state than the request has been refused.
C2_Witness ==
    /\ CallbackServed
    /\ oauth.ClientID # 0
    /\ last.code # 0
    /\ last.cookie.kind = "sealed"
    /\ last.cookie.payload # last.state
    /\ last.err = "state mismatch"

\* Step a comes before step b wherever b is among the steps of the request.
StepsOrdered(a, b) ==
    \A j \in 1..Len(last.steps) :
      last.steps[j] = b => \E i \in 1..(j - 1) : last.steps[i] = a

\* C11 as stated: every callback that carries a code answers with a
\* clearing state cookie, whatever came of the verification, and the clear
\* is issued before the provider is asked to exchange the code.
C11_CallbackAlwaysClears ==
    (CallbackServed /\ last.code # 0) =>
      /\ last.resp.stateCookie = Clear
      /\ StepsOrdered("clearState", "exchange")

\* C11 amended: every callback that carries a code while the provider
\* client is configured answers with a clearing state cookie, whether the
\* cookie failed to unseal, the states differed or they matched, and the
\* clear is issued before the provider is asked to exchange the code.
C11_ConfiguredCallbackClears ==
    (CallbackServed /\ last.code # 0 /\ last.err # "config") =>
      /\ last.resp.stateCookie = Clear
      /\ \E i \in 1..Len(last.steps) : last.steps[i] = "clearState"
      /\ StepsOrdered("clearState", "exchange")
      /\ last.own => jar.state = NoCookie

\* The user agent's own callback passed the verification, the code was
\* exchanged, and its state cookie is gone.
C11_Witness ==
    /\ CallbackServed
    /\ last.own
    /\ last.cookie = seal(last.state)
    /\ last.exchanged
    /\ jar.state = NoCookie

LoginRequest == last.op \in {"viewOauthLogin", "viewOauthCB"}

\* C12: while the client id is empty every Initiate and every Callback is
\* answered 400 and does nothing else: the response sets or clears no
\* cookie and redirects nowhere, and the provider is not called.
C12_UnconfiguredIs400 ==
    (LoginRequest /\ oauth.ClientID = 0) =>
      /\ last.resp.status = 400
      /\ last.resp.stateCookie = Keep
      /\ last.resp.loginCookie = Keep
      /\ last.resp.location = <<>>
      /\ CallbackServed =>
           /\ last.steps = <<>>
           /\ ~last.exchanged
           /\ ~last.fetched

\* With the client unconfigured again, a callback carrying a code and the
\* state an earlier Initiate issued, with its cookie, has been refused.
C12_Witness ==
    /\ CallbackServed
    /\ oauth.ClientID = 0
    /\ last.code # 0
    /\ last.state \in issued
    /\ last.cookie = seal(last.state)
    /\ last.resp.status = 400

SessionEstablished == last.resp.loginCookie.act = "set"

\* C13: only a callback sets the session cookie, and only after the code
\* was present, the state verified against a cookie Initiate issued, the
\* code exchanged and the profile fetched, in that order; a callback that
\* fails at any stage sets no session cookie and does not redirect to the
\* root; a signed-in user agent exists only after such a callback.
C13_SessionOnlyAfterAllStages ==
    /\ last.op \in {"viewUser", "viewOauthLogin", "viewOauthLogout"} =>
         ~SessionEstablished
    /\ CallbackServed =>
         /\ SessionEstablished =>
              /\ last.code # 0
              /\ last.cookie = seal(last.state)
              /\ last.state \in issued
              /\ last.steps = <<"unseal", "clearState", "compare", "exchange",
                                "lookupUser", "lookupUser ok", "setLogin", "redirect">>
         /\ last.err # "nil" => ~SessionEstablished
         /\ (\A i \in 1..Len(last.steps) : last.steps[i] # "lookupUser ok") =>
              ~SessionEstablished
         /\ ~SessionEstablished =>
              last.resp.status # 302 /\ last.resp.location # <<"/">>
    /\ jar.login.kind = "sealed" => (upstream \cap issued) # {}

\* The user agent's own callback has signed it in.
C13_Witness ==
    /\ CallbackServed
    /\ last.own
    /\ SessionEstablished
    /\ last.resp.location = <<"/">>
    /\ jar.login.kind = "sealed"

IdentityRead == last.op = "viewUser"
IdentityReturned == last.resp.writes[1].json

\* C9 as stated: an identity read answers 200 with the anonymous identity
\* when the cookie is absent or does not unseal, and with the sealed
\* identity otherwise.
C9_ReadReturnsSealedIdentity ==
    IdentityRead =>
      /\ last.resp.status = 200
      /\ Len(last.resp.writes) = 1
      /\ IdentityReturned =
           IF unseal(last.cookie).err THEN Anonymous ELSE unseal(last.cookie).value

\* C9 amended: an identity read answers 200 with the anonymous identity
\* when the cookie is absent or does not unseal, and otherwise with the
\* sealed identity whose non-empty avatar is replaced by its avatar path;
\* the read of a user agent that has applied a logout is anonymous.
C9_ReadNeverFails ==
    IdentityRead =>
      /\ last.resp.status = 200
      /\ Len(last.resp.writes) = 1
      /\ IdentityReturned =
           IF unseal(last.cookie).err THEN Anonymous
           ELSE LET id == unseal(last.cookie).value
                IN IF id.Avatar = <<>> THEN id
                   ELSE [id EXCEPT !.Avatar = AvatarPath(id.ID, id.Avatar)]
      /\ last.loggedOut # "no" => IdentityReturned = Anonymous

\* A user agent that was logged in and applied a logout has read its
\* identity.
C9_Witness ==
    /\ IdentityRead
    /\ last.own
    /\ last.loggedOut = "signed in"
    /\ IdentityReturned = Anonymous

\* Everything that can return a secret or leave it out: the owner-facing
\* handlers, the directory and the authenticator, over a directory in
\* which every name has gone live.
InitSecrets ==
    /\ channel_defs = {}
    /\ users = {}
    /\ thumbs = {[name |-> n, thumb |-> 1, updated |-> 0] : n \in LiveNames}
    /\ now = 0
    /\ LoginAtRest
    /\ last = Idle
NextSecrets ==
    \/ viewDefs \/ viewDefsCreate \/ viewDefsUpdate \/ viewDefsDelete
    \/ ListLiveChannels \/ AuthenticateRTMP \/ AuthenticateFTL \/ Return
SpecSecrets == InitSecrets /\ [][NextSecrets]_vars

(* ---- properties of the registry -------------------------------------- *)

\* The user id of the session a request carries, 0 when it has none.
SessionUser == IF unseal(last.cookie).err THEN 0 ELSE unseal(last.cookie).value.ID

CreateServed ==
    /\ last.op = "viewDefsCreate"
    /\ SessionUser # 0 /\ last.body.kind = "json" /\ last.randOk /\ last.dbOk

NameTaken == \E r \in last.before : r.name = last.body.Name

Projection(defs) == {<<d.Name, d.Key, d.Announce>> : d \in defs}
OwnedBy(u) == {<<r.name, r.key, r.announce>> : r \in {q \in channel_defs : q.user_id = u}}
JSONWritten == {w \in {last.resp.writes[i] : i \in 1..Len(last.resp.writes)} :
                  "json" \in DOMAIN w}

\* C10: the channel-definition listing answered to the session of user u
\* holds exactly the channels u owns, and no response of the listing ever
\* holds a channel of another owner; a created channel's secret goes to
\* its owner; the directory listing and the authorization record have no
\* field for the secret.
C10_SecretOnlyToOwner ==
    /\ last.op = "viewDefs" =>
         /\ \A w \in JSONWritten : w.json # Null =>
              Projection(w.json[1]) \subseteq OwnedBy(SessionUser)
         /\ (SessionUser # 0 /\ last.dbOk) =>
              /\ last.resp.status = 200
              /\ \E w \in JSONWritten :
                   w.json # Null /\ Projection(w.json[1]) = OwnedBy(SessionUser)
         /\ SessionUser = 0 => JSONWritten = {}
    /\ last.op = "viewDefsCreate" =>
         \A w \in JSONWritten :
           <<w.json.Name, w.json.Key, w.json.Announce>> \in OwnedBy(SessionUser)
    /\ (last.op = "listChannels" /\ last.ret # Null) =>
         \A i \in 1..Len(last.ret[1]) : "Key" \notin DOMAIN last.ret[1][i]
    /\ last.op = "verifyRTMP" => DOMAIN last.auth = {"UserID", "Name", "Announce"}
    /\ (last.op = "verifyFTL" /\ last.auth # Null) =>
         DOMAIN last.auth[1] = {"UserID", "Name", "Announce"}

\* A user who owns no channel has listed the definitions while another
\* owner holds one, and got an empty list.
C10_Witness ==
    /\ last.op = "viewDefs"
    /\ SessionUser # 0 /\ last.dbOk
    /\ \E r \in channel_defs : r.user_id # SessionUser
    /\ \E w \in JSONWritten : w.json = Some({})

(* ---- properties of the owner-facing handlers -------------------------- *)

RegistryRequest ==
    last.op \in {"viewDefs", "viewDefsCreate", "viewDefsUpdate", "viewDefsDelete"}

\* The request reached its store operation, and the store answered.
UpdateServed == last.op = "viewDefsUpdate" /\ last.owner # Null /\ last.dbOk
Matching == {r \in last.before : r.user_id = SessionUser /\ r.name = last.name}

\* C14: SetAnnounce(owner, name, b) sets the flag of exactly the channel
\* with that owner and name and leaves every other channel and field as it
\* was; when no channel has both it returns NotFound (ErrNoRows) and the
\* registry is as it was.
C14_SetAnnounceExact ==
    UpdateServed =>
      IF Matching = {}
      THEN last.err = "ErrNoRows" /\ channel_defs = last.before
      ELSE /\ last.err = "nil"
           /\ Cardinality(Matching) = 1
           /\ channel_defs = (last.before \ Matching)
                \cup {[r EXCEPT !.announce = last.body.Announce] : r \in Matching}

\* A user has set the flag of a name that another user owns, next to a
\* channel of its own, and got NotFound.
C14_Witness ==
    /\ UpdateServed
    /\ \E r \in last.before : r.name = last.name /\ r.user_id # SessionUser
    /\ \E r \in last.before : r.user_id = SessionUser /\ r.announce # last.body.Announce
    /\ last.err = "ErrNoRows"

\* C15: whenever the store operation of a list, create, update or delete
\* request fails, the response is the generic server error and no success
\* payload is written.
C15_StoreFailureIs500 ==
    (RegistryRequest /\ last.owner # Null /\ ~last.dbOk) =>
      /\ last.resp.status = 500
      /\ JSONWritten = {}

\* C19: a registry request whose session cookie is absent or does not
\* unseal is answered 401, makes no store call and leaves the registry as
\* it was; every store call is made with the user id unsealed from the
\* cookie, and only that user's channels change.
C19_OwnerIsSessionUser ==
    RegistryRequest =>
      /\ unseal(last.cookie).err =>
           /\ last.resp.status = 401
           /\ last.owner = Null
           /\ JSONWritten = {}
           /\ channel_defs = last.before
      /\ last.owner # Null =>
           /\ SessionUser # 0
           /\ last.owner = Some(SessionUser)
      /\ \A r \in (channel_defs \ last.before) \cup (last.before \ channel_defs) :
           r.user_id = SessionUser

\* A request without a valid session asked to delete a channel that
\* exists, and was refused.
C19_Witness ==
    /\ last.op = "viewDefsDelete"
    /\ unseal(last.cookie).err
    /\ \E r \in channel_defs : r.name = last.name
    /\ last.resp.status = 401

====
